---- MODULE Spec2Model ----
(***************************************************************************)
(* Model of tracker.py: the persisted ledger (grind_tracker.json), the     *)
(* start / stop / report commands, the trailing-window aggregation and the *)
(* artifacts the report writes.                                            *)
(*                                                                         *)
(* Time is counted in ticks; a day has TicksPerDay ticks.  The wall clock  *)
(* is the variable clock (ticks since midnight of FirstDay); time.time()   *)
(* and datetime.now() both read it.  A date-key "YYYY-MM-DD" is the tuple  *)
(* <<year, month, day>>; the reserved key "active" is <<"active">>.        *)
(* A python dict is a function whose DOMAIN is the set of its keys.        *)
(*                                                                         *)
(* The commands Start, Stop and Report run to completion, one at a time.   *)
(* The invocations of procs run side by side, as separate processes of the *)
(* operating system do: each takes its steps (load, open for writing,      *)
(* write and close, report, publish) interleaved with the other's.         *)
(***************************************************************************)
EXTENDS Integers, Sequences, FiniteSets, TLC

-----------------------------------------------------------------------------
(* Bounds of the model *)

TicksPerDay == 2      \* clock resolution: ticks in one calendar day
MaxDay      == 1      \* the clock runs over days 0 .. MaxDay after FirstDay
MaxStops    == 2      \* successful stops in one behaviour
MaxLag      == 1      \* ticks that may pass between two clock reads of one stop,
                      \* and ticks the clock may be set back behind a session's start

\* a session lasts at most one day
MaxSession == TicksPerDay

Categories == {"coding", "reading"}
FirstDay   == <<2023, 12, 27>>
Years      == 2023 .. 2025

-----------------------------------------------------------------------------
(* Program constants *)

WindowDays     == 7       \* timedelta(days=7)
SecondsPerHour == 3600    \* v / 3600
SecondsPerDay  == 86400   \* datetime: one day
HourDecimals   == 2       \* round(..., 2)

DB_PATH      == "grind_tracker.json"
REPORT_PATH  == "grind_report.png"
SUMMARY_PATH == "grind_summary.md"
README_PATH  == "README.md"

ActiveKey == <<"active">>

-----------------------------------------------------------------------------
(* python dict operations *)

EmptyDict == [k \in {} |-> 0]

\* d.get(k, default)
Get(d, k, default) == IF k \in DOMAIN d THEN d[k] ELSE default

\* d[k] = v
Put(d, k, v) == [x \in (DOMAIN d) \cup {k} |-> IF x = k THEN v ELSE d[x]]

\* d.pop(k): the dict that remains
Pop(d, k) == [x \in (DOMAIN d) \ {k} |-> d[x]]

-----------------------------------------------------------------------------
(* datetime: proleptic Gregorian calendar, as in the python library *)

IsLeap(y) == (y % 4 = 0) /\ ((y % 100 # 0) \/ (y % 400 = 0))

DaysInMonth(y, m) ==
    IF m = 2 THEN (IF IsLeap(y) THEN 29 ELSE 28)
    ELSE IF m \in {4, 6, 9, 11} THEN 30 ELSE 31

DaysBeforeYear(y) ==
    LET p == y - 1 IN p * 365 + (p \div 4) - (p \div 100) + (p \div 400)

\* _DAYS_BEFORE_MONTH: days of a common year before the first of month m
DAYS_BEFORE_MONTH == <<0, 31, 59, 90, 120, 151, 181, 212, 243, 273, 304, 334>>

DaysBeforeMonth(y, m) ==
    DAYS_BEFORE_MONTH[m] + (IF m > 2 /\ IsLeap(y) THEN 1 ELSE 0)

\* date(y, m, d).toordinal()
Ymd2Ord(y, m, d) == DaysBeforeYear(y) + DaysBeforeMonth(y, m) + d

\* date.fromordinal(n), as <<year, month, day>>
Ord2Ymd(n) ==
    LET y == CHOOSE yy \in Years :
                 DaysBeforeYear(yy) < n /\ n <= DaysBeforeYear(yy + 1)
        r == n - DaysBeforeYear(y)
        m == CHOOSE mm \in 1 .. 12 :
                 DaysBeforeMonth(y, mm) < r
                 /\ r <= DaysBeforeMonth(y, mm) + DaysInMonth(y, mm)
    IN  <<y, m, r - DaysBeforeMonth(y, m)>>

FirstOrd == Ymd2Ord(FirstDay[1], FirstDay[2], FirstDay[3])

\* A datetime is the number of ticks since midnight of ordinal 0.
\* datetime.now() when the wall clock reads t
Now(t) == FirstOrd * TicksPerDay + t

\* timedelta(days=n)
TimeDelta(n) == n * TicksPerDay

\* dt.strftime('%Y-%m-%d')
StrfTime(dt) == Ord2Ymd(dt \div TicksPerDay)

ParseError == -1

\* datetime.strptime(s, "%Y-%m-%d"): midnight of the day, or ParseError
\* when s is not a date (the ValueError the caller swallows)
StrpTime(s) ==
    IF /\ Len(s) = 3
       /\ s[1] \in 1 .. 9999
       /\ s[2] \in 1 .. 12
       /\ s[3] \in 1 .. DaysInMonth(s[1], s[2])
    THEN Ymd2Ord(s[1], s[2], s[3]) * TicksPerDay
    ELSE ParseError

-----------------------------------------------------------------------------
(* State *)

VARIABLES
    clock,      \* the wall clock, in ticks since midnight of FirstDay
    file,       \* grind_tracker.json: [exists, data]
    chart,      \* grind_report.png:   [exists, content]
    summary,    \* grind_summary.md:   [exists, content]
    readme,     \* README.md:          [exists, content]
    git,        \* git_commit_push calls: [calls, files, tree, message]
    out,        \* the last command and what it printed: [argv, msgs]
    procs       \* the invocations running side by side: [argv, pc, db, message, msgs]

vars == <<clock, file, chart, summary, readme, git, out, procs>>

MaxClock == (MaxDay + 1) * TicksPerDay - 1

\* The state file: whether it exists, whether its text is a complete JSON
\* document, and the dict the text encodes when it is.
NoFile == [exists |-> FALSE, parses |-> FALSE, content |-> EmptyDict]

\* open(DB_PATH, 'w'): the file is created or truncated; until json.dump has
\* written all of the text and the file is closed, what is on disk is a
\* proper prefix of a JSON object, which json.load rejects
OpenForWrite == [exists |-> TRUE, parses |-> FALSE, content |-> EmptyDict]

\* load_db always returns: the file that exists never fails to parse
JSONDecodeError_Never(f) == FALSE

\* load_db raises json.JSONDecodeError: the file exists and its text is not
\* a JSON document
JSONDecodeError(f) == f.exists /\ ~f.parses

\* load_db, when it returns
load_db(f) == IF ~f.exists THEN EmptyDict ELSE f.content

\* save_db, when it has run to its end
save_db(data) == [exists |-> TRUE, parses |-> TRUE, content |-> data]

-----------------------------------------------------------------------------
(* generate_report *)

\* round(n / d) on a quotient of integers, ties to even as python's round
RoundHalfEven(n, d) ==
    LET q == n \div d
        r == n % d
    IN  IF 2 * r < d THEN q
        ELSE IF 2 * r > d THEN q + 1
        ELSE IF q % 2 = 0 THEN q ELSE q + 1

\* round(v / 3600, 2) of a duration of v ticks, in hundredths of an hour
Hours(v) ==
    RoundHalfEven(v * SecondsPerDay * (10 ^ HourDecimals),
                  TicksPerDay * SecondsPerHour)

\* the window test with the lower end of the window left out
InWindow_OpenStart(date_obj, start, end) == start < date_obj /\ date_obj <= end

\* the window test with the upper end of the window left out
InWindow_OpenEnd(date_obj, start, end) == start <= date_obj /\ date_obj < end

\* start <= date_obj <= end
InWindow(date_obj, start, end) == start <= date_obj /\ date_obj <= end

RECURSIVE AggregateDay(_, _, _, _)

\* the inner loop with the total assigned instead of added to:
\* totals[cat] = secs
AggregateDay_Overwrites(acc, date_str, data, cats) ==
    IF cats = {} THEN acc
    ELSE LET cat  == CHOOSE c \in cats : TRUE
             secs == data[cat]
             day  == Get(acc.daily_logs, date_str, EmptyDict)
             nxt  == [totals     |-> Put(acc.totals, cat, secs),
                      daily_logs |-> Put(acc.daily_logs, date_str,
                                         Put(day, cat, Get(day, cat, 0) + secs))]
         IN  AggregateDay(nxt, date_str, data, cats \ {cat})

\* the inner loop: for cat, secs in data.items()
AggregateDay(acc, date_str, data, cats) ==
    IF cats = {} THEN acc
    ELSE LET cat  == CHOOSE c \in cats : TRUE
             secs == data[cat]
             day  == Get(acc.daily_logs, date_str, EmptyDict)
             nxt  == [totals     |-> Put(acc.totals, cat,
                                         Get(acc.totals, cat, 0) + secs),
                      daily_logs |-> Put(acc.daily_logs, date_str,
                                         Put(day, cat, Get(day, cat, 0) + secs))]
         IN  AggregateDay(nxt, date_str, data, cats \ {cat})

RECURSIVE Aggregate(_, _, _, _, _)

\* the outer loop with the running session counted: the time elapsed since
\* its start is added to the total of its category
Aggregate_CountsActive(acc, db, keys, start, end) ==
    IF keys = {} THEN acc
    ELSE LET date_str == CHOOSE k \in keys : TRUE
             rest     == keys \ {date_str}
         IN  IF date_str = ActiveKey
             THEN LET cat == db[ActiveKey].category
                      secs == end - Now(db[ActiveKey].start)
                  IN  Aggregate([acc EXCEPT !.totals =
                                    Put(@, cat, Get(@, cat, 0) + secs)],
                                db, rest, start, end)
             ELSE LET date_obj == StrpTime(date_str) IN
                  IF date_obj = ParseError \/ ~InWindow(date_obj, start, end)
                  THEN Aggregate(acc, db, rest, start, end)
                  ELSE Aggregate(AggregateDay(acc, date_str, db[date_str],
                                              DOMAIN db[date_str]),
                                 db, rest, start, end)

\* the outer loop: for date_str, data in db.items()
Aggregate(acc, db, keys, start, end) ==
    IF keys = {} THEN acc
    ELSE LET date_str == CHOOSE k \in keys : TRUE
             rest     == keys \ {date_str}
         IN  IF date_str = ActiveKey
             THEN Aggregate(acc, db, rest, start, end)
             ELSE LET date_obj == StrpTime(date_str) IN
                  IF date_obj = ParseError
                  THEN Aggregate(acc, db, rest, start, end)
                  ELSE IF ~InWindow(date_obj, start, end)
                  THEN Aggregate(acc, db, rest, start, end)
                  ELSE Aggregate(AggregateDay(acc, date_str, db[date_str],
                                              DOMAIN db[date_str]),
                                 db, rest, start, end)

\* totals and daily_logs of generate_report run on db at datetime end
ReportData(db, end) ==
    Aggregate([totals |-> EmptyDict, daily_logs |-> EmptyDict],
              db, DOMAIN db, end - TimeDelta(WindowDays), end)

\* sorted(hours.items(), key=lambda x: -x[1]); dict order among equal hours
\* is not modelled, one order is fixed per dict
RECURSIVE SortByHoursDesc(_, _)
SortByHoursDesc(hours, cats) ==
    IF cats = {} THEN <<>>
    ELSE LET c == CHOOSE x \in cats : \A y \in cats : hours[x] >= hours[y]
         IN  <<<<c, hours[c]>>>> \o SortByHoursDesc(hours, cats \ {c})

\* string order of two date-keys
KeyLess(a, b) ==
    \/ a[1] < b[1]
    \/ a[1] = b[1] /\ a[2] < b[2]
    \/ a[1] = b[1] /\ a[2] = b[2] /\ a[3] < b[3]

RECURSIVE SortKeysDesc(_)

\* the sort without reverse=True: the earliest day first
SortKeysDesc_Ascending(keys) ==
    IF keys = {} THEN <<>>
    ELSE LET k == CHOOSE x \in keys : \A y \in keys : y = x \/ KeyLess(x, y)
         IN  <<k>> \o SortKeysDesc(keys \ {k})

\* sorted(daily_logs.keys(), reverse=True)
SortKeysDesc(keys) ==
    IF keys = {} THEN <<>>
    ELSE LET k == CHOOSE x \in keys : \A y \in keys : y = x \/ KeyLess(y, x)
         IN  <<k>> \o SortKeysDesc(keys \ {k})

\* summary_content
SummaryContent(totals, daily_logs) ==
    LET hours == [c \in DOMAIN totals |-> Hours(totals[c])]
        days  == SortKeysDesc(DOMAIN daily_logs)
    IN  [chart_ref |-> REPORT_PATH,
         md_table  |-> SortByHoursDesc(hours, DOMAIN hours),
         daily_section |->
             [i \in 1 .. Len(days) |->
                 [day  |-> days[i],
                  rows |-> [c \in DOMAIN daily_logs[days[i]] |->
                               Hours(daily_logs[days[i]][c])]]]]

NoArtifact == [exists |-> FALSE, content |-> EmptyDict]

\* generate_report without the early return on empty totals: the artifacts
\* are written whatever the totals
generate_report_AlwaysWrites(f, t, arts) ==
    LET db      == load_db(f)
        data    == ReportData(db, Now(t))
        hours   == [c \in DOMAIN data.totals |-> Hours(data.totals[c])]
        content == SummaryContent(data.totals, data.daily_logs)
    IN  [file    |-> f,
         chart   |-> [exists |-> TRUE, content |-> hours],
         summary |-> [exists |-> TRUE, content |-> content],
         readme  |-> [exists |-> TRUE, content |-> content],
         msgs    |-> IF DOMAIN data.totals = {} THEN <<"NoData">>
                     ELSE <<"ChartSaved", "SummaryWritten">>]

\* generate_report that saves the dict it loaded with the "active" key
\* dropped
generate_report_DropsActive(f, t, arts) ==
    LET db   == load_db(f)
        data == ReportData(db, Now(t))
        kept == IF ActiveKey \in DOMAIN db THEN save_db(Pop(db, ActiveKey)) ELSE f
    IN  IF DOMAIN data.totals = {}
        THEN [file |-> kept, chart |-> arts.chart, summary |-> arts.summary,
              readme |-> arts.readme, msgs |-> <<"NoData">>]
        ELSE LET hours   == [c \in DOMAIN data.totals |-> Hours(data.totals[c])]
                 content == SummaryContent(data.totals, data.daily_logs)
             IN  [file    |-> kept,
                  chart   |-> [exists |-> TRUE, content |-> hours],
                  summary |-> [exists |-> TRUE, content |-> content],
                  readme  |-> [exists |-> TRUE, content |-> content],
                  msgs    |-> <<"ChartSaved", "SummaryWritten">>]

\* generate_report with the markdown files opened for appending: the rows of
\* the table are added after those the file has
generate_report_Appends(f, t, arts) ==
    LET db   == load_db(f)
        data == ReportData(db, Now(t))
    IN  IF DOMAIN data.totals = {}
        THEN [file |-> f, chart |-> arts.chart, summary |-> arts.summary,
              readme |-> arts.readme, msgs |-> <<"NoData">>]
        ELSE LET hours   == [c \in DOMAIN data.totals |-> Hours(data.totals[c])]
                 content == SummaryContent(data.totals, data.daily_logs)
                 added(old) ==
                     IF old.exists
                     THEN [content EXCEPT !.md_table = old.content.md_table \o @]
                     ELSE content
             IN  [file    |-> f,
                  chart   |-> [exists |-> TRUE, content |-> hours],
                  summary |-> [exists |-> TRUE, content |-> added(arts.summary)],
                  readme  |-> [exists |-> TRUE, content |-> added(arts.readme)],
                  msgs    |-> <<"ChartSaved", "SummaryWritten">>]

\* generate_report: the state file, the artifacts and the messages after a run
\* on the state file f at wall-clock reading t, given the artifacts arts
\* before it (the state file is only read); the exception load_db raises is
\* not caught and ends the command with a traceback
generate_report(f, t, arts) ==
    LET db   == load_db(f)
        data == ReportData(db, Now(t))
    IN  IF JSONDecodeError(f)
        THEN [file |-> f, chart |-> arts.chart, summary |-> arts.summary,
              readme |-> arts.readme, msgs |-> <<"Traceback">>]
        ELSE IF DOMAIN data.totals = {}
        THEN [file |-> f, chart |-> arts.chart, summary |-> arts.summary,
              readme |-> arts.readme, msgs |-> <<"NoData">>]
        ELSE LET hours   == [c \in DOMAIN data.totals |-> Hours(data.totals[c])]
                 content == SummaryContent(data.totals, data.daily_logs)
             IN  [file    |-> f,
                  chart   |-> [exists |-> TRUE, content |-> hours],
                  summary |-> [exists |-> TRUE, content |-> content],
                  readme  |-> [exists |-> TRUE, content |-> content],
                  msgs    |-> <<"ChartSaved", "SummaryWritten">>]

-----------------------------------------------------------------------------
(* start_timer, stop_timer, git_commit_push *)

\* start_timer without the "active" test: a second start replaces the session
start_timer_Overwrites(f, category, t) ==
    [file |-> save_db(Put(load_db(f), ActiveKey,
                          [category |-> category, start |-> t])),
     msgs |-> <<"Started">>]

\* start_timer(category) on the state file f at wall-clock reading t
start_timer(f, category, t) ==
    LET db == load_db(f) IN
    IF JSONDecodeError(f)
    THEN [file |-> f, msgs |-> <<"Traceback">>]
    ELSE IF ActiveKey \in DOMAIN db
    THEN [file |-> f, msgs |-> <<"AlreadyRunning">>]
    ELSE [file |-> save_db(Put(db, ActiveKey,
                               [category |-> category, start |-> t])),
          msgs |-> <<"Started">>]

\* the files of the working directory, by path
WorkTree(f, arts) ==
    [p \in {DB_PATH, REPORT_PATH, SUMMARY_PATH, README_PATH} |->
        IF p = DB_PATH THEN f
        ELSE IF p = REPORT_PATH THEN arts.chart
        ELSE IF p = SUMMARY_PATH THEN arts.summary
        ELSE arts.readme]

\* git_commit_push(files, message) run in the working directory fs: git add
\* takes the files as they are on disk at the call; ok: the git commands all
\* succeeded (a failure is caught and printed)
git_commit_push(g, fs, files, message, ok) ==
    [git  |-> [calls |-> g.calls + 1, files |-> files,
               tree  |-> [p \in files |-> fs[p]], message |-> message],
     msgs |-> IF ok THEN <<"Pushed">> ELSE <<"GitFailed">>]

\* Commit with the duration assigned to the entry instead of added to it
Commit_Assigns(db, end_time, dateNow) ==
    LET session  == db[ActiveKey]
        db1      == Pop(db, ActiveKey)
        date_str == StrfTime(dateNow)
        db2      == IF date_str \notin DOMAIN db1
                    THEN Put(db1, date_str, EmptyDict) ELSE db1
    IN  Put(db2, date_str,
            Put(db2[date_str], session.category, end_time - session.start))

\* Commit with the day's mapping replaced by the one entry of the session
Commit_ReplacesDay(db, end_time, dateNow) ==
    LET session  == db[ActiveKey]
        db1      == Pop(db, ActiveKey)
        date_str == StrfTime(dateNow)
        old      == IF date_str \in DOMAIN db1 THEN db1[date_str] ELSE EmptyDict
    IN  Put(db1, date_str,
            Put(EmptyDict, session.category,
                Get(old, session.category, 0) + end_time - session.start))

\* Commit with the session read but not popped: it stays in the db
Commit_KeepsActive(db, end_time, dateNow) ==
    LET session  == db[ActiveKey]
        duration == end_time - session.start
        date_str == StrfTime(dateNow)
        category == session.category
        db2      == IF date_str \notin DOMAIN db
                    THEN Put(db, date_str, EmptyDict) ELSE db
    IN  Put(db2, date_str,
            Put(db2[date_str], category,
                Get(db2[date_str], category, 0) + duration))

\* the ledger stop_timer saves: the session popped and its duration added
\* under the date-key of the datetime dateNow
Commit(db, end_time, dateNow) ==
    LET session  == db[ActiveKey]
        db1      == Pop(db, ActiveKey)
        duration == end_time - session.start
        date_str == StrfTime(dateNow)
        category == session.category
        db2      == IF date_str \notin DOMAIN db1
                    THEN Put(db1, date_str, EmptyDict) ELSE db1
    IN  Put(db2, date_str,
            Put(db2[date_str], category,
                Get(db2[date_str], category, 0) + duration))

\* stop_timer without the early return: with no session it still runs the
\* report and the publish step
stop_timer_NoEarlyReturn(f, arts, g, tEnd, tDate, tReport, ok) ==
    LET db == load_db(f) IN
    IF ActiveKey \notin DOMAIN db
    THEN LET rep  == generate_report(f, tReport, arts)
             push == git_commit_push(g, WorkTree(rep.file, rep),
                         {DB_PATH, REPORT_PATH, SUMMARY_PATH, README_PATH},
                         EmptyDict, ok)
         IN  [file |-> rep.file, chart |-> rep.chart, summary |-> rep.summary,
              readme |-> rep.readme, git |-> push.git,
              msgs |-> <<"NoActive">>]
    ELSE LET session == db[ActiveKey]
             saved   == save_db(Commit(db, tEnd, Now(tDate)))
             rep     == generate_report(saved, tReport, arts)
             push    == git_commit_push(g, WorkTree(rep.file, rep),
                            {DB_PATH, REPORT_PATH, SUMMARY_PATH, README_PATH},
                            [hours    |-> Hours(tEnd - session.start),
                             category |-> session.category,
                             date     |-> StrfTime(Now(tDate))],
                            ok)
         IN  [file |-> rep.file, chart |-> rep.chart, summary |-> rep.summary,
              readme |-> rep.readme, git |-> push.git,
              msgs |-> <<"Stopped">> \o rep.msgs \o push.msgs]

\* stop_timer with generate_report called before save_db: the report reads
\* the state file as start_timer left it
stop_timer_ReportsFirst(f, arts, g, tEnd, tDate, tReport, ok) ==
    LET db == load_db(f) IN
    IF JSONDecodeError(f)
    THEN [file |-> f, chart |-> arts.chart, summary |-> arts.summary,
          readme |-> arts.readme, git |-> g, msgs |-> <<"Traceback">>]
    ELSE IF ActiveKey \notin DOMAIN db
    THEN [file |-> f, chart |-> arts.chart, summary |-> arts.summary,
          readme |-> arts.readme, git |-> g, msgs |-> <<"NoActive">>]
    ELSE LET session == db[ActiveKey]
             rep     == generate_report(f, tReport, arts)
             saved   == save_db(Commit(db, tEnd, Now(tDate)))
             push    == git_commit_push(g, WorkTree(saved, rep),
                            {DB_PATH, REPORT_PATH, SUMMARY_PATH, README_PATH},
                            [hours    |-> Hours(tEnd - session.start),
                             category |-> session.category,
                             date     |-> StrfTime(Now(tDate))],
                            ok)
         IN  [file |-> saved, chart |-> rep.chart, summary |-> rep.summary,
              readme |-> rep.readme, git |-> push.git,
              msgs |-> <<"Stopped">> \o rep.msgs \o push.msgs]

\* stop_timer on the state file f: time.time() reads tEnd, datetime.now()
\* reads tDate, the report's datetime.now() reads tReport
stop_timer(f, arts, g, tEnd, tDate, tReport, ok) ==
    LET db == load_db(f) IN
    IF JSONDecodeError(f)
    THEN [file |-> f, chart |-> arts.chart, summary |-> arts.summary,
          readme |-> arts.readme, git |-> g, msgs |-> <<"Traceback">>]
    ELSE IF ActiveKey \notin DOMAIN db
    THEN [file |-> f, chart |-> arts.chart, summary |-> arts.summary,
          readme |-> arts.readme, git |-> g, msgs |-> <<"NoActive">>]
    ELSE LET session == db[ActiveKey]
             saved   == save_db(Commit(db, tEnd, Now(tDate)))
             rep     == generate_report(saved, tReport, arts)
             push    == git_commit_push(g, WorkTree(rep.file, rep),
                            {DB_PATH, REPORT_PATH, SUMMARY_PATH, README_PATH},
                            [hours    |-> Hours(tEnd - session.start),
                             category |-> session.category,
                             date     |-> StrfTime(Now(tDate))],
                            ok)
         IN  [file |-> rep.file, chart |-> rep.chart, summary |-> rep.summary,
              readme |-> rep.readme, git |-> push.git,
              msgs |-> <<"Stopped">> \o rep.msgs \o push.msgs]

-----------------------------------------------------------------------------
(* The commands, and the passing of time *)

Artifacts == [chart |-> chart, summary |-> summary, readme |-> readme]

HasActive == ActiveKey \in DOMAIN load_db(file)

ActiveSession == load_db(file)[ActiveKey]

\* no publish yet
NoGit == [calls |-> 0, files |-> {}, tree |-> EmptyDict, message |-> EmptyDict]

\* the processes that can run side by side
Procs == {1, 2}

\* a process that runs no command
Idle == [argv |-> <<>>, pc |-> "done", db |-> EmptyDict, message |-> EmptyDict,
         msgs |-> <<>>]

NoProcs == [p \in Procs |-> Idle]

Init ==
    /\ clock = 0
    /\ file = NoFile
    /\ chart = NoArtifact
    /\ summary = NoArtifact
    /\ readme = NoArtifact
    /\ git = NoGit
    /\ out = [argv |-> <<>>, msgs |-> <<>>]
    /\ procs = NoProcs

\* main: tracker.py start <category>
Start(category) ==
    \E r \in {start_timer(file, category, clock)} :
    /\ file' = r.file
    /\ out' = [argv |-> <<"start", category>>, msgs |-> r.msgs]
    /\ UNCHANGED <<clock, chart, summary, readme, git, procs>>

\* main: tracker.py stop
Stop ==
    /\ git.calls < MaxStops
    /\ \E lag1 \in 0 .. MaxLag, lag2 \in 0 .. MaxLag, ok \in BOOLEAN :
          /\ clock + lag1 + lag2 <= MaxClock
          /\ \E r \in {stop_timer(file, Artifacts, git, clock, clock + lag1,
                                  clock + lag1 + lag2, ok)} :
              /\ file' = r.file
              /\ chart' = r.chart
              /\ summary' = r.summary
              /\ readme' = r.readme
              /\ git' = r.git
              /\ out' = [argv |-> <<"stop">>, msgs |-> r.msgs]
              /\ clock' = IF HasActive THEN clock + lag1 + lag2 ELSE clock
              /\ UNCHANGED procs

\* main: tracker.py report
Report ==
    \E r \in {generate_report(file, clock, Artifacts)} :
    /\ chart' = r.chart
    /\ summary' = r.summary
    /\ readme' = r.readme
    /\ file' = r.file
    /\ out' = [argv |-> <<"report">>, msgs |-> r.msgs]
    /\ UNCHANGED <<clock, git, procs>>

\* time passes between two commands
Tick ==
    \E t \in (clock + 1) .. MaxClock :
        /\ HasActive => t - ActiveSession.start <= MaxSession
        /\ clock' = t
        /\ UNCHANGED <<file, chart, summary, readme, git, out, procs>>

\* the wall clock is set back while a session runs (time.time() and
\* datetime.now() read the system clock, which is not monotonic)
SetBack ==
    \E t \in 0 .. (clock - 1) :
        /\ HasActive
        /\ ActiveSession.start - t <= MaxLag
        /\ clock' = t
        /\ UNCHANGED <<file, chart, summary, readme, git, out, procs>>

Next ==
    \/ \E category \in Categories : Start(category)
    \/ Stop
    \/ Report
    \/ Tick
    \/ SetBack

Spec == Init /\ [][Next]_vars

-----------------------------------------------------------------------------
(* The report over a ledger that is already on disk: sessions were logged   *)
(* on the days 0 .. MaxDay, and the clock runs on until the last of them   *)
(* is more than WindowDays old.                                            *)

HorizonDays == MaxDay + WindowDays + 1

MaxClockW == (HorizonDays + 1) * TicksPerDay - 1

\* the date-key stop_timer writes on day i after FirstDay
DateKeyOfDay(i) == StrfTime(Now(i * TicksPerDay))

SampleSecs == {1, 2}

SampleDayMaps == UNION {[cs -> SampleSecs] : cs \in (SUBSET Categories) \ {{}}}

SampleLedgers ==
    UNION {[ks -> SampleDayMaps] : ks \in SUBSET {DateKeyOfDay(i) : i \in 0 .. MaxDay}}

SampleSessions ==
    {[category |-> "coding", start |-> 0],
     [category |-> "reading", start |-> MaxClock]}

SampleFiles ==
    {save_db(l) : l \in SampleLedgers}
    \cup {save_db(Put(l, ActiveKey, a)) : l \in SampleLedgers, a \in SampleSessions}

InitWindow ==
    /\ clock = 0
    /\ file \in SampleFiles
    /\ chart = NoArtifact
    /\ summary = NoArtifact
    /\ readme = NoArtifact
    /\ git = NoGit
    /\ out = [argv |-> <<>>, msgs |-> <<>>]
    /\ procs = NoProcs

\* time passes between two reports
PassTime ==
    \E t \in (clock + 1) .. MaxClockW :
        /\ clock' = t
        /\ UNCHANGED <<file, chart, summary, readme, git, out, procs>>

NextWindow ==
    \/ Report
    \/ PassTime

SpecWindow == InitWindow /\ [][NextWindow]_vars

-----------------------------------------------------------------------------
(* The report over a state file edited by hand: next to the days the       *)
(* program logged it has keys that are not dates, and days with no entry.  *)

\* "backup" is no date at all, "2023-02-30" has the form of one
MalformedKeys == {<<"backup">>, <<2023, 2, 30>>}

SampleLedgersAgg ==
    LET maps == SampleDayMaps \cup {EmptyDict}
        days == {DateKeyOfDay(i) : i \in 0 .. MaxDay}
    IN  {l @@ [k \in MalformedKeys |-> ("coding" :> 2)] :
            l \in UNION {[ks -> maps] : ks \in SUBSET days}}

InitAggregate ==
    /\ clock = 0
    /\ file \in {save_db(l) : l \in SampleLedgersAgg}
    /\ chart = NoArtifact
    /\ summary = NoArtifact
    /\ readme = NoArtifact
    /\ git = NoGit
    /\ out = [argv |-> <<>>, msgs |-> <<>>]
    /\ procs = NoProcs

SpecAggregate == InitAggregate /\ [][NextWindow]_vars

-----------------------------------------------------------------------------
(* The commands on a state file that is missing or does not parse: a save  *)
(* that was killed between opening the file and closing it leaves such a   *)
(* file behind.                                                            *)

SampleFilesLoad == {NoFile, OpenForWrite}

InitLoad ==
    /\ clock = 0
    /\ file \in SampleFilesLoad
    /\ chart = NoArtifact
    /\ summary = NoArtifact
    /\ readme = NoArtifact
    /\ git = NoGit
    /\ out = [argv |-> <<>>, msgs |-> <<>>]
    /\ procs = NoProcs

SpecLoad == InitLoad /\ [][Next]_vars

-----------------------------------------------------------------------------
(* Invocations running side by side.  Each is a process of its own with    *)
(* its own db; the processes share the files and the clock.  A process     *)
(* takes one step per access to the state file: load_db reads it,          *)
(* save_db first opens it for writing, which truncates it, and then writes *)
(* the text and closes it.  The report reads the state file and writes the *)
(* artifacts, which no command reads, in one step.                         *)

\* main: the command lines
Commands == {<<"start", c>> : c \in Categories} \cup {<<"stop">>, <<"report">>}

\* main: the process started by the command line argv, before its first step
Invocation(argv) ==
    [argv    |-> argv,
     pc      |-> IF argv = <<"report">> THEN "report" ELSE "load",
     db      |-> EmptyDict,
     message |-> EmptyDict,
     msgs    |-> <<>>]

\* the state files the invocations find: none, a session running, a day
\* logged, a day logged and a session running
SampleFilesConc ==
    LET session == [category |-> "coding", start |-> 0]
        ledger  == DateKeyOfDay(0) :> ("coding" :> 1)
    IN  {NoFile,
         save_db(Put(EmptyDict, ActiveKey, session)),
         save_db(ledger),
         save_db(Put(ledger, ActiveKey, session))}

InitConc ==
    /\ clock = 0
    /\ file \in SampleFilesConc
    /\ chart = NoArtifact
    /\ summary = NoArtifact
    /\ readme = NoArtifact
    /\ git = NoGit
    /\ out = [argv |-> <<>>, msgs |-> <<>>]
    /\ procs \in [Procs -> {Invocation(argv) : argv \in Commands}]

\* the process p ends with the messages msgs printed after those it has
Exit(p, msgs) ==
    [procs EXCEPT ![p] = [@ EXCEPT !.pc = "done", !.msgs = @ \o msgs]]

\* start_timer that saves the db it loaded, without the session
PLoad_NoSession(p) ==
    /\ procs[p].pc = "load"
    /\ LET me == procs[p]
           db == load_db(file)
       IN  IF JSONDecodeError(file)
           THEN procs' = Exit(p, <<"Traceback">>)
           ELSE IF me.argv[1] = "start"
           THEN IF ActiveKey \in DOMAIN db
                THEN procs' = Exit(p, <<"AlreadyRunning">>)
                ELSE procs' = [procs EXCEPT ![p] =
                        [me EXCEPT !.pc = "open", !.db = db]]
           ELSE IF ActiveKey \notin DOMAIN db
                THEN procs' = Exit(p, <<"NoActive">>)
                ELSE procs' = [procs EXCEPT ![p] =
                        [me EXCEPT !.pc = "open",
                                   !.db = Commit(db, clock, Now(clock))]]
    /\ UNCHANGED <<clock, file, chart, summary, readme, git, out>>

\* start_timer and stop_timer up to the call of save_db: db = load_db(), the
\* test of "active", and the change made to db
PLoad(p) ==
    /\ procs[p].pc = "load"
    /\ LET me == procs[p]
           db == load_db(file)
       IN  IF JSONDecodeError(file)
           THEN procs' = Exit(p, <<"Traceback">>)
           ELSE IF me.argv[1] = "start"
           THEN IF ActiveKey \in DOMAIN db
                THEN procs' = Exit(p, <<"AlreadyRunning">>)
                ELSE procs' = [procs EXCEPT ![p] =
                        [me EXCEPT !.pc = "open",
                                   !.db = Put(db, ActiveKey,
                                              [category |-> me.argv[2],
                                               start    |-> clock])]]
           ELSE IF ActiveKey \notin DOMAIN db
                THEN procs' = Exit(p, <<"NoActive">>)
                ELSE procs' = [procs EXCEPT ![p] =
                        [me EXCEPT !.pc = "open",
                                   !.db = Commit(db, clock, Now(clock)),
                                   !.message =
                                       [hours    |-> Hours(clock - db[ActiveKey].start),
                                        category |-> db[ActiveKey].category,
                                        date     |-> StrfTime(Now(clock))]]]
    /\ UNCHANGED <<clock, file, chart, summary, readme, git, out>>

\* save_db: with open(DB_PATH, 'w') as f
PSaveOpen(p) ==
    /\ procs[p].pc = "open"
    /\ file' = OpenForWrite
    /\ procs' = [procs EXCEPT ![p] = [@ EXCEPT !.pc = "write"]]
    /\ UNCHANGED <<clock, chart, summary, readme, git, out>>

\* save_db: json.dump(data, f, indent=2) and the end of the with block, and
\* the message start_timer or stop_timer prints after it.  The text goes to
\* the start of the file.  When the other process has written the file
\* since this one opened it, the text lands on top of the other's: the file
\* holds this process's text if that is the longer one, and otherwise this
\* text followed by the rest of the other's, which does not parse.  The
\* length of the texts is not modelled: both outcomes are possible.
PSaveClose(p) ==
    /\ procs[p].pc = "write"
    /\ \/ file' = save_db(procs[p].db)
       \/ file.parses /\ file' = OpenForWrite
    /\ procs' = IF procs[p].argv[1] = "start"
                THEN Exit(p, <<"Started">>)
                ELSE [procs EXCEPT ![p] = [@ EXCEPT !.pc = "report",
                                                    !.msgs = @ \o <<"Stopped">>]]
    /\ UNCHANGED <<clock, chart, summary, readme, git, out>>

\* generate_report, called by main or by stop_timer
PReport(p) ==
    /\ procs[p].pc = "report"
    /\ \E r \in {generate_report(file, clock, Artifacts)} :
          /\ chart' = r.chart
          /\ summary' = r.summary
          /\ readme' = r.readme
          /\ procs' = IF r.msgs = <<"Traceback">> \/ procs[p].argv = <<"report">>
                      THEN Exit(p, r.msgs)
                      ELSE [procs EXCEPT ![p] = [@ EXCEPT !.pc = "publish",
                                                          !.msgs = @ \o r.msgs]]
    /\ UNCHANGED <<clock, file, git, out>>

\* stop_timer: git_commit_push
PPublish(p) ==
    /\ procs[p].pc = "publish"
    /\ \E ok \in BOOLEAN :
          \E r \in {git_commit_push(git, WorkTree(file, Artifacts),
                                    {DB_PATH, REPORT_PATH, SUMMARY_PATH, README_PATH},
                                    procs[p].message, ok)} :
              /\ git' = r.git
              /\ procs' = Exit(p, r.msgs)
    /\ UNCHANGED <<clock, file, chart, summary, readme, out>>

NextConc ==
    \/ \E p \in Procs : PLoad(p)
    \/ \E p \in Procs : PSaveOpen(p)
    \/ \E p \in Procs : PSaveClose(p)
    \/ \E p \in Procs : PReport(p)
    \/ \E p \in Procs : PPublish(p)
    \/ Tick

SpecConc == InitConc /\ [][NextConc]_vars

-----------------------------------------------------------------------------
(* Properties of start and stop *)

\* the ledger proper: the date-keys of a dict
LedgerKeys(db) == (DOMAIN db) \ {ActiveKey}

\* db[k][c], or 0 when the date or the category entry is absent
ValueOf(db, k, c) ==
    IF k \in DOMAIN db /\ c \in DOMAIN db[k] THEN db[k][c] ELSE 0

\* whether db has the entry (k, c), and its value
EntryOf(db, k, c) ==
    IF k \in DOMAIN db /\ c \in DOMAIN db[k] THEN <<TRUE, db[k][c]>>
    ELSE <<FALSE, 0>>

\* a step of the stop command, taken with a session active
StopStep == HasActive /\ ~HasActive' /\ out'.argv = <<"stop">> /\ Stop

\* the date-key of each day of the model
DateKeys == [i \in 0 .. HorizonDays |-> StrfTime(Now(i * TicksPerDay))]

\* the date-keys of the clock readings taken during the step
TodayDuringStep == {DateKeys[t \div TicksPerDay] : t \in clock .. clock'}

\* C1: a start issued while a session is active is refused (AlreadyRunning)
\* and leaves the state file, so the active session's category and start
\* time, as it was.
MutualExclusion ==
    [][\A category \in Categories :
          (HasActive /\ clock' = clock /\ out'.argv = <<"start", category>>
             /\ Start(category)) =>
              /\ out'.msgs = <<"AlreadyRunning">>
              /\ file' = file]_vars

\* a start of "reading" was refused while the "coding" session stays active
MutualExclusionWitness ==
    /\ HasActive
    /\ ActiveSession.category = "coding"
    /\ out = [argv |-> <<"start", "reading">>, msgs |-> <<"AlreadyRunning">>]

\* C2: a stop at time T of the active session {C, S} leaves
\* ledger[today][C] = its previous value (0 when absent) + (T - S), today
\* being the date at the stop; when the session started on another date, the
\* entry of that date is untouched.
AdditiveCommit ==
    [][StopStep =>
          \E today \in TodayDuringStep :
              LET C   == ActiveSession.category
                  S   == ActiveSession.start
                  old == load_db(file)
                  new == load_db(file')
                  startDay == DateKeys[S \div TicksPerDay]
              IN  /\ EntryOf(new, today, C)
                       = <<TRUE, ValueOf(old, today, C) + (clock - S)>>
                  /\ startDay # today =>
                       EntryOf(new, startDay, C) = EntryOf(old, startDay, C)]_vars

\* two stops on day 1, the first of a session begun on day 0 (2 ticks), the
\* second of a 1-tick session: the entry of day 1 holds 3, day 0 has none
AdditiveCommitWitness ==
    /\ git.calls = 2
    /\ out.argv = <<"stop">>
    /\ git.message.hours = Hours(1)
    /\ load_db(file) = (DateKeyOfDay(1) :> ("coding" :> 3))

\* C3: a successful stop of a session with category C removes the active
\* session and changes no entry of the ledger other than (today, C).
StopFrame ==
    [][StopStep =>
          \E today \in TodayDuringStep :
              LET C   == ActiveSession.category
                  old == load_db(file)
                  new == load_db(file')
              IN  /\ DOMAIN new = LedgerKeys(old) \cup {today}
                  /\ \A k \in LedgerKeys(old) \ {today} : new[k] = old[k]
                  /\ DOMAIN new[today]
                       = (IF today \in DOMAIN old THEN DOMAIN old[today] ELSE {})
                         \cup {C}
                  /\ \A c \in (DOMAIN new[today]) \ {C} :
                       new[today][c] = old[today][c]]_vars

\* a stop logged "reading" on day 1 and the "coding" entry of day 0 is still
\* there
StopFrameWitness ==
    /\ out.argv = <<"stop">>
    /\ git.calls = 2
    /\ git.message.category = "reading"
    /\ load_db(file) = (DateKeyOfDay(0) :> ("coding" :> 1))
                       @@ (DateKeyOfDay(1) :> ("reading" :> 1))

\* C4: a stop with no active session changes neither the state file nor the
\* artifacts, does not publish, and prints the no-active message.
StopRefused ==
    [][(~HasActive /\ clock' = clock /\ out'.argv = <<"stop">> /\ Stop) =>
          /\ file' = file
          /\ chart' = chart /\ summary' = summary /\ readme' = readme
          /\ git' = git
          /\ out'.msgs = <<"NoActive">>]_vars

\* a stop was refused after an earlier session had been logged and reported
StopRefusedWitness ==
    /\ out = [argv |-> <<"stop">>, msgs |-> <<"NoActive">>]
    /\ LedgerKeys(load_db(file)) # {}
    /\ chart.exists

-----------------------------------------------------------------------------
(* Properties of the report *)

\* a step of the report command
ReportStep == clock' = clock /\ out'.argv = <<"report">> /\ Report

\* the day (counted from FirstDay) a date-key written by stop_timer names
DayIndexOf ==
    [k \in {DateKeyOfDay(i) : i \in 0 .. HorizonDays} |->
        CHOOSE i \in 0 .. HorizonDays : DateKeyOfDay(i) = k]

DayIndex(k) == DayIndexOf[k]

\* how many calendar days before the date of the clock reading the key is
AgeInDays(k) == (clock \div TicksPerDay) - DayIndex(k)

\* the days and the categories a summary lists
ReportedDays(content) ==
    {content.daily_section[i].day : i \in DOMAIN content.daily_section}

ReportedCats(content) ==
    {content.md_table[i][1] : i \in DOMAIN content.md_table}

\* the report step shows exactly the date-keys days of the ledger: their days
\* in the daily logs, their categories in the totals; nothing is written
\* when days is empty
ReportShows(days) ==
    IF days = {} THEN out'.msgs = <<"NoData">>
    ELSE /\ out'.msgs = <<"ChartSaved", "SummaryWritten">>
         /\ ReportedDays(summary'.content) = days
         /\ ReportedCats(summary'.content)
              = UNION {DOMAIN load_db(file)[k] : k \in days}
         /\ DOMAIN chart'.content = ReportedCats(summary'.content)

\* C5 as stated: a date-key contributes to the report iff it is dated at
\* most 7 calendar days before the invocation and not after it, whatever the
\* time of day of the invocation.
WindowByCalendarDays ==
    [][ReportStep =>
          ReportShows({k \in LedgerKeys(load_db(file)) :
                          0 <= AgeInDays(k) /\ AgeInDays(k) <= WindowDays})]_vars

\* the window of the code: dated today or up to 6 days before, or exactly 7
\* days before when the clock reads midnight
InCodeWindow(k) ==
    \/ 0 <= AgeInDays(k) /\ AgeInDays(k) < WindowDays
    \/ AgeInDays(k) = WindowDays /\ clock % TicksPerDay = 0

\* C5 amended: a date-key contributes to the report iff midnight of its day
\* lies in [now - 7 days, now]: it is dated today or up to 6 calendar days
\* before, or exactly 7 days before and the invocation is at midnight sharp.
WindowByMidnight ==
    [][ReportStep =>
          ReportShows({k \in LedgerKeys(load_db(file)) : InCodeWindow(k)})]_vars

\* a report run 7 days and one tick after midnight of day 0 lists day 1 and
\* leaves out the entry of day 0 the ledger holds
WindowByMidnightWitness ==
    /\ clock = WindowDays * TicksPerDay + 1
    /\ out = [argv |-> <<"report">>, msgs |-> <<"ChartSaved", "SummaryWritten">>]
    /\ LedgerKeys(load_db(file)) = {DateKeyOfDay(0), DateKeyOfDay(1)}
    /\ ReportedDays(summary.content) = {DateKeyOfDay(1)}

\* C6: a report run when no ledger entry falls in the window writes none of
\* the chart, the summary and the readme, and prints the no-data message.
EmptyWindowNoOp ==
    [][(ReportStep /\ \A k \in LedgerKeys(load_db(file)) : ~InCodeWindow(k)) =>
          /\ chart' = chart /\ summary' = summary /\ readme' = readme
          /\ out'.msgs = <<"NoData">>]_vars

\* the artifacts of an earlier report are on disk, the ledger has entries,
\* and the last report found none of them in the window
EmptyWindowNoOpWitness ==
    /\ out = [argv |-> <<"report">>, msgs |-> <<"NoData">>]
    /\ LedgerKeys(load_db(file)) # {}
    /\ chart.exists /\ summary.exists /\ readme.exists

\* C7 as stated: no entry of the ledger is ever removed or decreased.
MonotoneLedger ==
    [][\A k \in LedgerKeys(load_db(file)) : \A c \in DOMAIN load_db(file)[k] :
          /\ k \in DOMAIN load_db(file')
          /\ c \in DOMAIN load_db(file')[k]
          /\ load_db(file')[k][c] >= load_db(file)[k][c]]_vars

\* C8 as stated: every accumulated duration of the ledger is >= 0.
NonNegativeDurations ==
    \A k \in LedgerKeys(load_db(file)) : \A c \in DOMAIN load_db(file)[k] :
        load_db(file)[k][c] >= 0

\* C9: a report leaves the state file as it was; the state file a stop leaves
\* is the one it saved before it ran the report.
ReportReadOnly ==
    [][/\ ReportStep => file' = file
       /\ StopStep =>
            \E t \in clock .. clock' :
                file' = save_db(Commit(load_db(file), clock, Now(t)))]_vars

\* a report wrote the artifacts while a session was active, and the session
\* is still recorded
ReportReadOnlyWitness ==
    /\ HasActive
    /\ out = [argv |-> <<"report">>, msgs |-> <<"ChartSaved", "SummaryWritten">>]

\* the state file with its active session removed
WithoutSession(f) == save_db(Pop(load_db(f), ActiveKey))

\* C10: what a report writes and prints is what it would write and print
\* with no active session recorded, whatever the category and the start time
\* of the session that is.
ActiveInvisible ==
    [][ReportStep =>
          \E r \in {generate_report(WithoutSession(file), clock, Artifacts)} :
              /\ chart' = r.chart
              /\ summary' = r.summary
              /\ readme' = r.readme
              /\ out'.msgs = r.msgs]_vars

\* a report ran with a "reading" session active on a ledger of "coding"
\* only, and lists "coding" alone
ActiveInvisibleWitness ==
    /\ HasActive
    /\ ActiveSession = [category |-> "reading", start |-> MaxClock]
    /\ out = [argv |-> <<"report">>, msgs |-> <<"ChartSaved", "SummaryWritten">>]
    /\ ReportedCats(summary.content) = {"coding"}
    /\ DOMAIN chart.content = {"coding"}

\* the last command was a report that wrote the artifacts
ReportWritten ==
    out = [argv |-> <<"report">>, msgs |-> <<"ChartSaved", "SummaryWritten">>]

\* C12 as stated: a report that follows a report, with no start or stop
\* between them, writes the markdown content the first one wrote, whatever
\* the times of the two invocations.
IdempotentReport ==
    [][(ReportWritten /\ ReportStep) =>
          /\ summary'.content = summary.content
          /\ readme'.content = readme.content]_vars

\* C12 amended: a report that follows a report, with no start or stop
\* between them, at a time when the date-keys in the window are those the
\* first report listed, writes the artifacts the first one wrote.
IdempotentReportSameWindow ==
    [][(/\ ReportWritten
        /\ ReportedDays(summary.content)
              = {k \in LedgerKeys(load_db(file)) : InCodeWindow(k)}
        /\ ReportStep) =>
          /\ out'.msgs = <<"ChartSaved", "SummaryWritten">>
          /\ summary' = summary
          /\ readme' = readme
          /\ chart' = chart]_vars

\* the last tick of day 1, after a report: the ledger holds day 0 and day 1,
\* the summary on disk lists both, and both are in the window of a report
\* run now
IdempotentReportSameWindowWitness ==
    /\ clock = MaxClock
    /\ ReportWritten
    /\ LedgerKeys(load_db(file)) = {DateKeyOfDay(0), DateKeyOfDay(1)}
    /\ ReportedDays(summary.content) = {DateKeyOfDay(0), DateKeyOfDay(1)}
    /\ readme = summary

\* the date-keys of db that name a day in the window of a report run now
WindowKeys(db) ==
    {k \in LedgerKeys(db) : k \in DOMAIN DayIndexOf /\ InCodeWindow(k)}

\* the sum of db[k][c] over the keys k that have an entry for c
RECURSIVE SumOver(_, _, _)
SumOver(db, keys, c) ==
    IF keys = {} THEN 0
    ELSE LET k == CHOOSE x \in keys : TRUE
         IN  ValueOf(db, k, c) + SumOver(db, keys \ {k}, c)

\* C15: totals[c] is the sum of ledger[d][c] over the in-window date-keys d
\* for every category c found there; dailyLogs holds exactly the in-window
\* date-keys with an entry, with the ledger's values; the sums of dailyLogs
\* are the totals; keys that are not dates add nothing and the report does
\* not fail on them.  The chart and the daily tables show these numbers.
AggregationSums ==
    [][ReportStep =>
          LET db   == load_db(file)
              W    == WindowKeys(db)
              data == ReportData(db, Now(clock))
          IN  /\ DOMAIN data.totals = UNION {DOMAIN db[k] : k \in W}
              /\ \A c \in DOMAIN data.totals :
                    /\ data.totals[c] = SumOver(db, W, c)
                    /\ data.totals[c]
                         = SumOver(data.daily_logs, DOMAIN data.daily_logs, c)
              /\ DOMAIN data.daily_logs = {k \in W : DOMAIN db[k] # {}}
              /\ \A k \in DOMAIN data.daily_logs : data.daily_logs[k] = db[k]
              /\ IF \A k \in W : DOMAIN db[k] = {}
                 THEN out'.msgs = <<"NoData">>
                 ELSE /\ out'.msgs = <<"ChartSaved", "SummaryWritten">>
                      /\ chart'.content
                           = [c \in UNION {DOMAIN db[k] : k \in W} |->
                                 Hours(SumOver(db, W, c))]
                      /\ ReportedDays(summary'.content)
                           = {k \in W : DOMAIN db[k] # {}}
                      /\ \A i \in DOMAIN summary'.content.daily_section :
                            LET sec == summary'.content.daily_section[i]
                            IN  sec.rows = [c \in DOMAIN db[sec.day] |->
                                               Hours(db[sec.day][c])]]_vars

\* a report ran on a ledger with the two malformed keys, coding logged on
\* day 0 and on day 1 and a day 1 entry for reading: the chart shows the
\* sum of the two days for coding
AggregationSumsWitness ==
    /\ out = [argv |-> <<"report">>, msgs |-> <<"ChartSaved", "SummaryWritten">>]
    /\ MalformedKeys \subseteq DOMAIN load_db(file)
    /\ ValueOf(load_db(file), DateKeyOfDay(0), "coding") = 1
    /\ ValueOf(load_db(file), DateKeyOfDay(1), "coding") = 2
    /\ ValueOf(load_db(file), DateKeyOfDay(1), "reading") = 1
    /\ chart.content = ("coding" :> Hours(3)) @@ ("reading" :> Hours(1))

\* C17: the top-level table has one row for each category with in-window
\* data and no other, with its total hours, and the hours do not increase
\* down the table; the daily logs have one section for each in-window day
\* with data and no other, each day later than the one below it.
ReportOrdering ==
    [][(ReportStep /\ out'.msgs = <<"ChartSaved", "SummaryWritten">>) =>
          LET db    == load_db(file)
              W     == WindowKeys(db)
              table == summary'.content.md_table
              days  == summary'.content.daily_section
          IN  /\ {table[i][1] : i \in DOMAIN table} = UNION {DOMAIN db[k] : k \in W}
              /\ \A i, j \in DOMAIN table :
                    /\ i # j => table[i][1] # table[j][1]
                    /\ i < j => table[i][2] >= table[j][2]
              /\ \A i \in DOMAIN table :
                    table[i][2] = Hours(SumOver(db, W, table[i][1]))
              /\ {days[i].day : i \in DOMAIN days} = W
              /\ \A i, j \in DOMAIN days :
                    i < j => DayIndex(days[i].day) > DayIndex(days[j].day)]_vars

\* the summary of a ledger with coding and reading on day 0 and reading on
\* day 1: reading, with the most hours, comes first, and day 1 comes before
\* day 0
ReportOrderingWitness ==
    /\ out = [argv |-> <<"report">>, msgs |-> <<"ChartSaved", "SummaryWritten">>]
    /\ summary.content.md_table
         = <<<<"reading", Hours(3)>>, <<"coding", Hours(1)>>>>
    /\ Len(summary.content.daily_section) = 2
    /\ summary.content.daily_section[1].day = DateKeyOfDay(1)
    /\ summary.content.daily_section[2].day = DateKeyOfDay(0)

-----------------------------------------------------------------------------
(* Properties of the order of a stop's effects *)

\* a step of the start command
StartStep ==
    /\ clock' = clock
    /\ \E category \in Categories :
          out'.argv = <<"start", category>> /\ Start(category)

\* C16: in a successful stop the ledger with the session committed and the
\* active session removed is on disk when the report runs (the artifacts
\* are those of a report on that file), the report has written the
\* artifacts when publish is called (git add takes the four files as the
\* report left them), and publish is called once, with the four files; a
\* start and a report call no publish.
StopOrdering ==
    [][/\ StopStep =>
            /\ \E t \in clock .. clock' :
                  \E r \in {generate_report(
                                save_db(Commit(load_db(file), clock, Now(t))),
                                clock', Artifacts)} :
                      /\ file' = r.file
                      /\ chart' = r.chart
                      /\ summary' = r.summary
                      /\ readme' = r.readme
                      /\ out'.msgs \in {<<"Stopped">> \o r.msgs \o <<m>> :
                                            m \in {"Pushed", "GitFailed"}}
            /\ git'.calls = git.calls + 1
            /\ git'.files = {DB_PATH, REPORT_PATH, SUMMARY_PATH, README_PATH}
            /\ git'.tree = WorkTree(file', Artifacts')
       /\ (StartStep \/ ReportStep) => git' = git]_vars

\* a stop logged half a day of coding, the report listed it, and the failed
\* publish had been given the state file and the artifacts as they are now
StopOrderingWitness ==
    /\ out = [argv |-> <<"stop">>,
              msgs |-> <<"Stopped", "ChartSaved", "SummaryWritten", "GitFailed">>]
    /\ git.calls = 1
    /\ git.message = [hours |-> Hours(1), category |-> "coding",
                      date |-> DateKeyOfDay(0)]
    /\ load_db(file) = (DateKeyOfDay(0) :> ("coding" :> 1))
    /\ chart.content = ("coding" :> Hours(1))
    /\ git.tree = WorkTree(file, Artifacts)

-----------------------------------------------------------------------------
(* Properties of the session state machine *)

\* the date-keys of a state file with their entries
Ledger(f) == [k \in LedgerKeys(load_db(f)) |-> load_db(f)[k]]

\* a step of the start command that prints its success
StartSucceeds == StartStep /\ out'.msgs = <<"Started">>

\* a step of the stop command that prints its success
StopSucceeds ==
    /\ out'.argv = <<"stop">>
    /\ out'.msgs # <<>>
    /\ Head(out'.msgs) = "Stopped"
    /\ Stop

\* a step of the stop command that refuses
StopRefuses ==
    /\ out' = [argv |-> <<"stop">>, msgs |-> <<"NoActive">>]
    /\ clock' = clock
    /\ Stop

\* C18: from the empty state, a start succeeds iff no session is on record
\* and then one is; a stop succeeds iff a session is on record and then none
\* is; no other step records or removes a session, so the successes
\* alternate, a start first; the ledger changes in the successful stops
\* only, each of them commits one entry and is counted by one publish.
StrictAlternation ==
    [][/\ StartStep => (out'.msgs = <<"Started">> <=> ~HasActive)
       /\ StartSucceeds => HasActive'
       /\ StopRefuses => ~HasActive
       /\ StopSucceeds =>
            /\ HasActive /\ ~HasActive'
            /\ git'.calls = git.calls + 1
            /\ \E today \in TodayDuringStep :
                  EntryOf(load_db(file'), today, ActiveSession.category)[1]
       /\ HasActive /\ out'.argv = <<"stop">> /\ Stop => StopSucceeds
       /\ HasActive' # HasActive => (StartSucceeds \/ StopSucceeds)
       /\ Ledger(file') # Ledger(file) => StopSucceeds
       /\ git' # git => StopSucceeds]_vars

\* a third start succeeded after two sessions were started and stopped
StrictAlternationWitness ==
    /\ git.calls = MaxStops
    /\ out = [argv |-> <<"start", "reading">>, msgs |-> <<"Started">>]
    /\ HasActive
    /\ ActiveSession.category = "reading"
    /\ LedgerKeys(load_db(file)) # {}

\* C19: the report a successful stop runs finds the entry the stop has just
\* committed in its window: it prints no no-data message, the chart and the
\* table show the category of the session, the daily logs show the date of
\* the stop, and the three artifacts are written anew.
StopReportsNonEmpty ==
    [][StopSucceeds =>
          /\ out'.msgs[2] = "ChartSaved" /\ out'.msgs[3] = "SummaryWritten"
          /\ ActiveSession.category \in DOMAIN chart'.content
          /\ ActiveSession.category \in ReportedCats(summary'.content)
          /\ \E today \in TodayDuringStep :
                /\ EntryOf(load_db(file'), today, ActiveSession.category)[1]
                /\ today \in ReportedDays(summary'.content)
          /\ \E r \in {generate_report(file', clock',
                                        [chart |-> NoArtifact, summary |-> NoArtifact,
                                         readme |-> NoArtifact])} :
                /\ chart' = r.chart /\ chart'.exists
                /\ summary' = r.summary /\ summary'.exists
                /\ readme' = r.readme /\ readme'.exists]_vars

\* a session begun at midnight of day 0 was stopped at midnight sharp of
\* day 1: the entry is dated at the very end of the report's window, and the
\* report shows it
StopReportsNonEmptyWitness ==
    /\ clock = TicksPerDay
    /\ out.argv = <<"stop">>
    /\ out.msgs \in {<<"Stopped", "ChartSaved", "SummaryWritten", m>> :
                        m \in {"Pushed", "GitFailed"}}
    /\ load_db(file) = (DateKeyOfDay(1) :> ("coding" :> TicksPerDay))
    /\ chart.content = ("coding" :> Hours(TicksPerDay))
    /\ ReportedDays(summary.content) = {DateKeyOfDay(1)}

-----------------------------------------------------------------------------
(* Properties of load_db *)

\* a step of one of the commands during which the clock does not advance
CommandStep ==
    /\ clock' = clock
    /\ out'.argv \in Commands
    /\ ((\E category \in Categories : Start(category)) \/ Stop \/ Report)

\* C13: with no state file the commands run as on the empty ledger (start
\* records its session in a new file, stop finds no session, report finds
\* no data); with a state file that does not parse, start, stop and report
\* end in a traceback and leave the state file, the artifacts and the
\* publish record as they were.
LoadOutcomes ==
    [][/\ (file.exists /\ ~file.parses /\ CommandStep) =>
            /\ out'.msgs = <<"Traceback">>
            /\ file' = file
            /\ chart' = chart /\ summary' = summary /\ readme' = readme
            /\ git' = git
       /\ (~file.exists /\ CommandStep) =>
            /\ out'.argv[1] = "start" =>
                  /\ out'.msgs = <<"Started">>
                  /\ DOMAIN load_db(file') = {ActiveKey}
                  /\ ActiveSession' = [category |-> out'.argv[2], start |-> clock]
            /\ out'.argv = <<"stop">> =>
                  /\ out'.msgs = <<"NoActive">>
                  /\ file' = file
            /\ out'.argv = <<"report">> =>
                  /\ out'.msgs = <<"NoData">>
                  /\ file' = file]_vars

\* a start on a state file that does not parse ended in a traceback, and the
\* file is as it was
LoadOutcomesWitness ==
    /\ file = OpenForWrite
    /\ out = [argv |-> <<"start", "coding">>, msgs |-> <<"Traceback">>]

-----------------------------------------------------------------------------
(* Properties of invocations running side by side *)

\* the other process
Other(p) == CHOOSE q \in Procs : q # p

\* the process p reads the state file in this step
LoadStep(p) ==
    /\ procs[p].pc \in {"load", "report"}
    /\ procs'[p].pc # procs[p].pc
    /\ (PLoad(p) \/ PReport(p))

\* C11 as stated: a load that runs while another invocation saves never
\* finds a half-written state file: what it reads is the complete content
\* from before the save or the complete content the save writes.
AtomicSave ==
    [][\A p \in Procs : LoadStep(p) => ~JSONDecodeError(file)]_vars

\* the start p writes and closes the state file; its save did not overlap
\* the other's
StartCloses(p) ==
    /\ procs[p].argv[1] = "start"
    /\ procs[p].pc = "write"
    /\ procs'[p].pc = "done"
    /\ ~file.parses
    /\ PSaveClose(p)

\* C14: when a start writes the state file after another start of a
\* different category has written it and reported success (so each loaded
\* before the other saved), the later one reports success too, and the state
\* file holds the later one's session and nothing of the earlier one's.
LostMutualExclusion ==
    [][\A p \in Procs :
          (/\ procs[Other(p)].argv[1] = "start"
           /\ procs[Other(p)].msgs = <<"Started">>
           /\ procs[Other(p)].argv # procs[p].argv
           /\ StartCloses(p)) =>
              /\ procs'[p].msgs = <<"Started">>
              /\ HasActive'
              /\ ActiveSession'.category = procs[p].argv[2]
              /\ ActiveSession'.category # procs[Other(p)].argv[2]
              /\ LedgerKeys(load_db(file')) = LedgerKeys(procs[p].db)]_vars

\* "start coding" and "start reading" have both printed their success, and
\* the state file holds the "reading" session alone
LostMutualExclusionWitness ==
    /\ procs[1] = [Invocation(<<"start", "coding">>) EXCEPT
                      !.pc = "done", !.msgs = <<"Started">>,
                      !.db = Put(EmptyDict, ActiveKey,
                                 [category |-> "coding", start |-> 0])]
    /\ procs[2].argv = <<"start", "reading">>
    /\ procs[2].msgs = <<"Started">>
    /\ load_db(file) = Put(EmptyDict, ActiveKey,
                           [category |-> "reading", start |-> procs[2].db[ActiveKey].start])

====
